---------------------------- MODULE Spec2Model ----------------------------
(***************************************************************************)
(* Verification model of the anime recommendation backend:                 *)
(*   - the training service (backend/app/services/training_service.py)     *)
(*     driven by the train route (backend/app/routes/admin.py) and the     *)
(*     trainers (backend/ml/training/individual_trainers.py);              *)
(*   - the collaborative-filtering predictors (backend/ml/models/*.py).    *)
(*                                                                         *)
(* Real numbers are modelled in fixed point: similarities in units of      *)
(* 1/SimScale, ratings and scores in units of 1/PredScale.                 *)
(***************************************************************************)
EXTENDS Integers, Sequences, FiniteSets, TLC

(***************************************************************************)
(* Bounds of the model.                                                    *)
(***************************************************************************)
\* number of train requests (one job id each) over the life of the service
MaxJobs == 3
\* number of interactions in a training set
MaxRatings == 4
\* largest neighbourhood size (k_neighbors, k_similar)
MaxK == 2
\* largest n passed to recommend
MaxN == 2

\* longest list split_by_user is called with
MaxSplitLen == 4

\* largest min_ratings split_by_user is called with
MaxMinRatings == 3

\* number of states of the random generator
RngPeriod == 5

\* number of split_by_user calls on one input
MaxSplitCalls == 2

\* longest test set handed to the accuracy evaluation
MaxTest == 3

\* loads of one model file after which no further service call is started
MaxLoads == 2

\* largest epochs NeuralCF.fit is called with
MaxEpochs == 5

\* largest early_stopping (patience) NeuralCF.fit is called with
MaxPatience == 2

\* validation losses are drawn from 1..MaxLoss
MaxLoss == 2

\* threads that call get_training_service()
MaxCallers == 3

VARIABLES
    jobs,         \* TrainingService.jobs: job id -> TrainingJob fields
    active_job,   \* TrainingService.active_job (0 stands for None)
    pc,           \* per train request / worker thread: position in the code
    req_model,    \* model_name sent with each train request
    wstep,        \* number of progress callbacks the worker's trainer has made
    model,        \* one predictor instance: hyperparameters and fitted state
    argsort_ties, \* how this build's np.argsort orders equal elements
    ratings_data, \* the interactions the instance was fitted on
    call,         \* the last predict / recommend call made on the instance
    result,       \* what that call returned (or raised)
    split_input,  \* split_by_user: the ratings_data list it is called with
    test_ratio,   \* split_by_user: test_ratio, in percent
    min_ratings,  \* split_by_user: min_ratings
    rng,          \* state of the generator of the random module
    split_out,    \* the (train_data, test_data) pairs the calls returned so far
    evaluation,   \* one call of _compute_prediction_metrics: arguments, locals, result
    models,       \* RecommendationService.models: name -> loaded instance (0: no key)
    active_model, \* RecommendationService.active_model ("" stands for None)
    disk,         \* the model names whose file exists in models_dir
    loads,        \* per name, the number of instances loaded from its file so far
    setter,       \* the request thread inside set_active_model
    reader,       \* the request thread inside get_recommendations / predict_rating
    hybrid_parts, \* user_model and item_model of the cached hybrid instance
    file,         \* the model file that save wrote (exists: whether one was written)
    fit_run,      \* one NeuralCF.fit call: arguments, locals, the module's training flag
    training_service, \* the module global _training_service (0 stands for None)
    callers       \* per thread in get_training_service(): position, instance returned

svcVars == <<jobs, active_job, pc, req_model, wstep>>

recVars == <<model, argsort_ties, ratings_data, call, result>>

splitVars == <<split_input, test_ratio, min_ratings, rng, split_out>>

evalVars == <<evaluation>>

cacheVars == <<models, active_model, disk, loads, setter, reader, hybrid_parts>>

fileVars == <<file>>

fitVars == <<fit_run>>

singletonVars == <<training_service, callers>>

vars == <<jobs, active_job, pc, req_model, wstep,
         model, argsort_ties, ratings_data, call, result,
         split_input, test_ratio, min_ratings, rng, split_out,
         evaluation,
         models, active_model, disk, loads, setter, reader, hybrid_parts,
         file,
         fit_run,
         training_service, callers>>

\* what the training service, the predictor calls and the splitter leave alone
notSvcVars ==
    <<recVars, splitVars, evalVars, cacheVars, fileVars, fitVars, singletonVars>>

notRecVars ==
    <<svcVars, splitVars, evalVars, cacheVars, fileVars, fitVars, singletonVars>>

\* what no fit, save or load changes
notLifeVars == <<svcVars, splitVars, evalVars, cacheVars, fitVars, singletonVars>>

notFitVars ==
    <<svcVars, recVars, splitVars, evalVars, cacheVars, fileVars, singletonVars>>

notSingletonVars ==
    <<svcVars, recVars, splitVars, evalVars, cacheVars, fileVars, fitVars>>

notSplitVars ==
    <<svcVars, recVars, evalVars, cacheVars, fileVars, fitVars, singletonVars>>

notEvalVars ==
    <<svcVars, recVars, splitVars, cacheVars, fileVars, fitVars, singletonVars>>

notCacheVars ==
    <<svcVars, recVars, splitVars, evalVars, fileVars, fitVars, singletonVars>>

JobIds == 1..MaxJobs

\* admin.py: valid_models
valid_models == {"user_based_cf", "item_based_cf", "hybrid", "neural_cf"}

None == "None"

(***************************************************************************)
(* individual_trainers.py: the progress_callback(progress, step) calls of  *)
(* each trainer, in program order.                                         *)
(***************************************************************************)
UserBasedProgress ==
    << [p |-> 5,  s |-> "Loading data from MongoDB..."],
       [p |-> 15, s |-> "Splitting train/test data..."],
       [p |-> 25, s |-> "Training User-Based CF model..."],
       [p |-> 60, s |-> "Evaluating model..."],
       [p |-> 80, s |-> "Saving model..."],
       [p |-> 90, s |-> "Updating model registry..."] >>

ItemBasedProgress ==
    << [p |-> 5,  s |-> "Loading data from MongoDB..."],
       [p |-> 15, s |-> "Splitting train/test data..."],
       [p |-> 25, s |-> "Training Item-Based CF model..."],
       [p |-> 60, s |-> "Evaluating model..."],
       [p |-> 80, s |-> "Saving model..."],
       [p |-> 90, s |-> "Updating model registry..."] >>

HybridProgress ==
    << [p |-> 5,  s |-> "Loading data from Mongolia..."],
       [p |-> 10, s |-> "Splitting train/test data..."],
       [p |-> 15, s |-> "Training User-Based CF..."],
       [p |-> 35, s |-> "Training Item-Based CF..."],
       [p |-> 55, s |-> "Optimizing hybrid weights..."],
       [p |-> 70, s |-> "Evaluating hybrid model..."],
       [p |-> 85, s |-> "Saving models..."],
       [p |-> 95, s |-> "Updating model registry..."] >>

\* a trainer whose reports go backwards (used to test the progress claim)
HybridProgressRegressing ==
    << [p |-> 5,  s |-> "Loading data from Mongolia..."],
       [p |-> 10, s |-> "Splitting train/test data..."],
       [p |-> 35, s |-> "Training User-Based CF..."],
       [p |-> 15, s |-> "Training Item-Based CF..."],
       [p |-> 55, s |-> "Optimizing hybrid weights..."],
       [p |-> 70, s |-> "Evaluating hybrid model..."],
       [p |-> 85, s |-> "Saving models..."],
       [p |-> 95, s |-> "Updating model registry..."] >>

NeuralProgress ==
    << [p |-> 5,  s |-> "Loading data from MongoDB..."],
       [p |-> 10, s |-> "Splitting train/test data..."],
       [p |-> 15, s |-> "Preparing NCF training data..."],
       [p |-> 20, s |-> "Initializing Neural CF model..."],
       [p |-> 25, s |-> "Training Neural CF (this may take 30-60 minutes)..."],
       [p |-> 75, s |-> "Evaluating Neural CF..."],
       [p |-> 90, s |-> "Saving model..."],
       [p |-> 95, s |-> "Updating model registry..."] >>

\* a registry whose hybrid trainer reports out of order
TrainerProgressRegressing(model_name) ==
    CASE model_name = "user_based_cf" -> UserBasedProgress
      [] model_name = "item_based_cf" -> ItemBasedProgress
      [] model_name = "hybrid"        -> HybridProgressRegressing
      [] model_name = "neural_cf"     -> NeuralProgress

\* individual_trainers.py: TRAINERS / get_trainer, as the reports each makes
TrainerProgress(model_name) ==
    CASE model_name = "user_based_cf" -> UserBasedProgress
      [] model_name = "item_based_cf" -> ItemBasedProgress
      [] model_name = "hybrid"        -> HybridProgress
      [] model_name = "neural_cf"     -> NeuralProgress

(***************************************************************************)
(* training_service.py: TrainingJob and the TrainingService methods, as    *)
(* functions from the job's fields to its new fields.                      *)
(***************************************************************************)
TrainingJob(model_name) ==
    [ model_name   |-> model_name,
      status       |-> "pending",
      progress     |-> 0,
      current_step |-> "Initializing...",
      completed_at |-> None,
      metrics      |-> None,
      error        |-> None ]

update_progress(job, progress, step) ==
    [job EXCEPT !.progress = progress, !.current_step = step]

mark_running(job) ==
    [job EXCEPT !.status = "running"]

\* a mark_completed that forgets the progress
mark_completed_keeps_progress(job, metrics) ==
    [job EXCEPT !.status = "completed",
                !.current_step = "Training completed successfully!",
                !.completed_at = "utcnow",
                !.metrics = metrics]

mark_completed(job, metrics) ==
    [job EXCEPT !.status = "completed",
                !.progress = 100,
                !.current_step = "Training completed successfully!",
                !.completed_at = "utcnow",
                !.metrics = metrics]

\* a mark_failed that records the error but leaves the status alone
mark_failed_keeps_status(job, error) ==
    [job EXCEPT !.current_step = "Training failed",
                !.completed_at = "utcnow",
                !.error = error]

mark_failed(job, error) ==
    [job EXCEPT !.status = "failed",
                !.current_step = "Training failed",
                !.completed_at = "utcnow",
                !.error = error]

\* create_job, first critical section: is a job recorded as active running?
ActiveJobRunning ==
    active_job # 0 /\ jobs[active_job].status = "running"

\* run_training: the statements inside try: from which an exception reaches
\* the except clause (everything after mark_running, before mark_completed
\* has returned)
InTry(j) == pc[j] = "running"

\* an except clause that would also run after mark_completed
InTryOrAfter(j) == pc[j] \in {"running", "finished"}

CanFault(j) == InTry(j)

(***************************************************************************)
(* Actions of the training service.                                        *)
(***************************************************************************)

\* POST /models/train -> create_job, lock section 1 (lines 73-75).
\* Requests are numbered in the order in which they reach this section, and
\* the requests of one run name the same model (jobs interact through status
\* and active_job only, never through model_name); the four names are
\* explored in separate runs.
TrainCheck(r, m) ==
    /\ pc[r] = "idle"
    /\ \A q \in JobIds : q < r => pc[q] # "idle"
    /\ \A q \in JobIds : req_model[q] \in {None, m}
    /\ req_model' = [req_model EXCEPT ![r] = m]
    /\ IF ActiveJobRunning
          THEN pc' = [pc EXCEPT ![r] = "conflict"]     \* ValueError -> 409
          ELSE pc' = [pc EXCEPT ![r] = "checked"]
    /\ UNCHANGED <<jobs, active_job, wstep, notSvcVars>>

\* create_job, lock section 2 (lines 83-86), then start_training_background
\* and the 202 response.
TrainInsert(r) ==
    /\ pc[r] = "checked"
    /\ jobs' = (r :> TrainingJob(req_model[r])) @@ jobs
    /\ pc' = [pc EXCEPT ![r] = "started"]
    /\ UNCHANGED <<active_job, req_model, wstep, notSvcVars>>

\* run_training: service.mark_running(job_id)
MarkRunning(j) ==
    /\ pc[j] = "started"
    /\ j \in DOMAIN jobs
    /\ jobs' = [jobs EXCEPT ![j] = mark_running(@)]
    /\ active_job' = j
    /\ pc' = [pc EXCEPT ![j] = "running"]
    /\ UNCHANGED <<req_model, wstep, notSvcVars>>

\* the trainer's next progress_callback -> service.update_progress
Progress(j) ==
    /\ pc[j] = "running"
    /\ wstep[j] < Len(TrainerProgress(req_model[j]))
    /\ LET rep == TrainerProgress(req_model[j])[wstep[j] + 1]
       IN  jobs' = [jobs EXCEPT ![j] = update_progress(@, rep.p, rep.s)]
    /\ wstep' = [wstep EXCEPT ![j] = @ + 1]
    /\ UNCHANGED <<active_job, pc, req_model, notSvcVars>>

\* an exception inside try: -> except Exception -> service.mark_failed
Fault(j) ==
    /\ CanFault(j)
    /\ j \in DOMAIN jobs
    /\ jobs' = [jobs EXCEPT ![j] = mark_failed(@, "error_msg")]
    /\ active_job' = IF active_job = j THEN 0 ELSE active_job
    /\ pc' = [pc EXCEPT ![j] = "finished"]
    /\ UNCHANGED <<req_model, wstep, notSvcVars>>

\* the trainer returned (model, metrics) -> service.mark_completed
Complete(j) ==
    /\ pc[j] = "running"
    /\ wstep[j] = Len(TrainerProgress(req_model[j]))
    /\ jobs' = [jobs EXCEPT ![j] = mark_completed(@, "metrics")]
    /\ active_job' = IF active_job = j THEN 0 ELSE active_job
    /\ pc' = [pc EXCEPT ![j] = "finished"]
    /\ UNCHANGED <<req_model, wstep, notSvcVars>>

Worker(j) == MarkRunning(j) \/ Progress(j) \/ Fault(j) \/ Complete(j)

(***************************************************************************)
(* The predictors (backend/ml/models).                                     *)
(*                                                                         *)
(* External ids are sparse integers; a training set is a set of rating     *)
(* dicts {user_id, anime_id, rating} with at most one rating per pair.     *)
(***************************************************************************)
UserIds == {11, 22, 33}

AnimeIds == {101, 202, 303}

\* ids used in calls: the ids above and one id no training set contains
QueryUserIds == UserIds \cup {44}

QueryAnimeIds == AnimeIds \cup {404}

\* the interactions training sets are drawn from (ratings on the 1..10 scale)
RatingPool ==
    { [user_id |-> 11, anime_id |-> 101, rating |-> 9],
      [user_id |-> 11, anime_id |-> 202, rating |-> 4],
      [user_id |-> 22, anime_id |-> 101, rating |-> 9],
      [user_id |-> 22, anime_id |-> 202, rating |-> 9],
      [user_id |-> 22, anime_id |-> 303, rating |-> 4],
      [user_id |-> 33, anime_id |-> 101, rating |-> 4],
      [user_id |-> 33, anime_id |-> 303, rating |-> 9] }

TrainingSets ==
    {d \in SUBSET RatingPool : d # {} /\ Cardinality(d) <= MaxRatings}

\* fixed-point resolution of similarity values (float32 in the code)
SimScale == 1000

\* fixed-point resolution of ratings and predicted scores
PredScale == 100

\* fixed-point resolution of the hybrid weights
WScale == 10

RatingMin == 1

RatingMax == 10

Max(a, b) == IF a >= b THEN a ELSE b

Min(a, b) == IF a <= b THEN a ELSE b

Abs(a) == IF a >= 0 THEN a ELSE 0 - a

\* np.clip
Clip(x, lo, hi) == Max(lo, Min(hi, x))

RECURSIVE SumF(_, _)
\* sum of f[x] over the finite set S
SumF(f, S) ==
    IF S = {} THEN 0
    ELSE LET x == CHOOSE y \in S : TRUE
         IN  f[x] + SumF(f, S \ {x})

RECURSIVE IsqrtIn(_, _, _)
\* largest r in lo..hi with r*r <= n (lo*lo <= n < (hi+1)*(hi+1))
IsqrtIn(n, lo, hi) ==
    IF lo = hi THEN lo
    ELSE LET mid == (lo + hi + 1) \div 2
         IN  IF mid * mid <= n THEN IsqrtIn(n, mid, hi)
                               ELSE IsqrtIn(n, lo, mid - 1)

\* floor of the square root, for 0 <= n < 2^31
Isqrt(n) == IsqrtIn(n, 0, 46340)

RECURSIVE ArgSortIn(_, _, _)
\* np.argsort restricted to the index set S: the indices of S in ascending
\* order of f; equal elements in ascending index order when ties = "stable"
\* and in descending index order when ties = "reversed" (quicksort is not a
\* stable sort: the order of equal elements depends on the build)
ArgSortIn(f, S, ties) ==
    IF S = {} THEN <<>>
    ELSE LET first == CHOOSE x \in S : \A y \in S \ {x} :
                          \/ f[x] < f[y]
                          \/ f[x] = f[y] /\ (IF ties = "stable" THEN x < y ELSE x > y)
         IN  <<first>> \o ArgSortIn(f, S \ {first}, ties)

\* a slice taken from the wrong end: seq[:k], the k smallest of an argsort
PyLastFromFront(seq, k) == SubSeq(seq, 1, Min(k, Len(seq)))

\* Python seq[-k:] (seq[-0:] is the whole sequence)
PyLast(seq, k) ==
    IF k = 0 THEN seq
    ELSE SubSeq(seq, Max(Len(seq) - k, 0) + 1, Len(seq))

\* Python seq[:n] for n >= 0
PyFirst(seq, n) == SubSeq(seq, 1, Min(n, Len(seq)))

\* Python seq[::-1]
Reverse(seq) == [p \in 1..Len(seq) |-> seq[Len(seq) + 1 - p]]

Range(seq) == {seq[p] : p \in 1..Len(seq)}

RECURSIVE SeqSum(_, _)
\* sum of f[seq[p]] over the positions of seq
SeqSum(f, seq) ==
    IF seq = <<>> THEN 0 ELSE f[Head(seq)] + SeqSum(f, Tail(seq))

\* what a call did: the float it returned (out), the list it returned (list),
\* or the exception it raised (error)
Ret(x) == [raised |-> FALSE, error |-> "", out |-> x, list |-> <<>>]

RetList(l) == [raised |-> FALSE, error |-> "", out |-> 0, list |-> l]

Raise(e) == [raised |-> TRUE, error |-> e, out |-> 0, list |-> <<>>]

(***************************************************************************)
(* fit (user_based.py 45-98, item_based.py 42-94)                          *)
(***************************************************************************)
\* {id: idx for idx, id in enumerate(sorted(set(ids)))}
IdMap(ids) == [x \in ids |-> Cardinality({y \in ids : y < x})]

\* {idx: id for id, idx in id_map.items()}
ReverseMap(id_map) ==
    [idx \in {id_map[x] : x \in DOMAIN id_map} |->
        CHOOSE x \in DOMAIN id_map : id_map[x] = idx]

\* csr_matrix((data, (rows, cols)), shape): 0 where no rating is stored
BuildMatrix(data, user_id_map, anime_id_map) ==
    [u \in 0..(Cardinality(DOMAIN user_id_map) - 1) |->
        [a \in 0..(Cardinality(DOMAIN anime_id_map) - 1) |->
            SumF([r \in data |->
                    IF user_id_map[r.user_id] = u /\ anime_id_map[r.anime_id] = a
                    THEN r.rating ELSE 0],
                 data)]]

Transpose(X) ==
    IF DOMAIN X = {} THEN <<>>
    ELSE LET cols == DOMAIN X[CHOOSE u \in DOMAIN X : TRUE]
         IN  [a \in cols |-> [u \in DOMAIN X |-> X[u][a]]]

\* row means over the stored entries (user_means)
RowMeans(X) ==
    [u \in DOMAIN X |->
        LET nz == {a \in DOMAIN X[u] : X[u][a] # 0}
        IN  IF nz = {} THEN 0
            ELSE (SumF(X[u], nz) * PredScale) \div Cardinality(nz)]

\* sklearn cosine_similarity(X): dot(a, b) / (|a| |b|), 0 for a zero row
CosineSimilarity(X) ==
    LET dot(a, b) == SumF([c \in DOMAIN X[a] |-> X[a][c] * X[b][c]], DOMAIN X[a])
    IN  [a \in DOMAIN X |-> [b \in DOMAIN X |->
            IF dot(a, a) = 0 \/ dot(b, b) = 0 THEN 0
            ELSE Min(SimScale,
                     (dot(a, b) * SimScale * 100)
                         \div Isqrt(dot(a, a) * dot(b, b) * 10000))]]

\* the loop "centered_matrix[i].data -= self.user_means[i]": indexing a csr
\* matrix by a row returns a new matrix holding a copy of the row's data, so
\* the subtraction changes the temporary and centered_matrix keeps the raw
\* ratings
CenteredMatrix(X, user_means) == X

\* UserBasedCF._compute_similarity
UserSimilarity(X, similarity_metric) ==
    IF similarity_metric = "cosine" THEN CosineSimilarity(X)
    ELSE CosineSimilarity(CenteredMatrix(X, RowMeans(X)))

\* ItemBasedCF._compute_similarity
ItemSimilarity(X, similarity_metric) ==
    IF similarity_metric = "cosine" THEN CosineSimilarity(Transpose(X))
    ELSE CosineSimilarity(Transpose(CenteredMatrix(X, RowMeans(X))))

(***************************************************************************)
(* A predictor instance.  kind is the class (the registry name); the       *)
(* fields keep the names of the source.  Before fit the maps and matrices  *)
(* are empty.                                                              *)
(***************************************************************************)
Kinds == {"user_based_cf", "item_based_cf", "hybrid", "neural_cf"}

\* __init__ of the four classes, with the similarity metrics the trainers
\* pass (individual_trainers.py 61, 110, 157, 163) and the defaults of
\* NeuralCF.__init__ (dropout in percent)
NewModel(kind, k, uw, iw) ==
    [ kind              |-> kind,
      k_neighbors       |-> k,
      k_similar         |-> k,
      user_similarity_metric |-> "cosine",
      item_similarity_metric |-> "adjusted_cosine",
      user_weight       |-> IF uw + iw > 0 THEN (uw * WScale) \div (uw + iw) ELSE uw,
      item_weight       |-> IF uw + iw > 0 THEN (iw * WScale) \div (uw + iw) ELSE iw,
      mlp_layers        |-> <<128, 64, 32>>,
      dropout           |-> 20,
      state_dict        |-> 0,
      num_users         |-> 0,
      num_items         |-> 0,
      fitted            |-> FALSE,
      has_id_maps       |-> kind # "neural_cf",
      user_id_map       |-> <<>>,
      anime_id_map      |-> <<>>,
      reverse_anime_map |-> <<>>,
      user_item_matrix  |-> <<>>,
      user_similarity   |-> <<>>,
      item_similarity   |-> <<>> ]

\* UserBasedCF.fit / ItemBasedCF.fit: rebuild the maps, the matrix and the
\* similarities the class uses (the hybrid's two sub-models are fitted on the
\* same data)
Fit(m, data) ==
    LET umap == IdMap({r.user_id : r \in data})
        amap == IdMap({r.anime_id : r \in data})
        X    == BuildMatrix(data, umap, amap)
    IN  [m EXCEPT
            !.fitted            = TRUE,
            !.num_users         = Cardinality(DOMAIN umap),
            !.num_items         = Cardinality(DOMAIN amap),
            !.user_id_map       = umap,
            !.anime_id_map      = amap,
            !.reverse_anime_map = ReverseMap(amap),
            !.user_item_matrix  = X,
            !.user_similarity   =
                IF m.kind \in {"user_based_cf", "hybrid"}
                THEN UserSimilarity(X, m.user_similarity_metric) ELSE <<>>,
            !.item_similarity   =
                IF m.kind \in {"item_based_cf", "hybrid"}
                THEN ItemSimilarity(X, m.item_similarity_metric) ELSE <<>>]

\* train_neural_cf up to the end of model.fit: NeuralCF(num_users, num_items)
\* is trained on index-mapped data and ends with the weights state_dict; the
\* instance has no id maps yet
NeuralFit(m, data, state_dict) ==
    [m EXCEPT
        !.fitted     = TRUE,
        !.num_users  = Cardinality({r.user_id : r \in data}),
        !.num_items  = Cardinality({r.anime_id : r \in data}),
        !.state_dict = state_dict]

\* train_neural_cf after model.fit (and NeuralCF.load): the id maps become
\* attributes of the instance
AttachIdMaps(m, data) ==
    LET amap == IdMap({r.anime_id : r \in data})
    IN  [m EXCEPT
            !.has_id_maps       = TRUE,
            !.user_id_map       = IdMap({r.user_id : r \in data}),
            !.anime_id_map      = amap,
            !.reverse_anime_map = ReverseMap(amap)]

\* the exception fit raises, "" when it returns: the sparsity line divides by
\* shape[0] * shape[1], and _compute_similarity rejects a metric it does not know
FitError(m, data) ==
    IF data = {} THEN "ZeroDivisionError"
    ELSE IF /\ m.kind \in {"user_based_cf", "hybrid"}
            /\ m.user_similarity_metric \notin {"cosine", "pearson"}
    THEN "ValueError"
    ELSE IF /\ m.kind \in {"item_based_cf", "hybrid"}
            /\ m.item_similarity_metric \notin {"cosine", "adjusted_cosine"}
    THEN "ValueError"
    ELSE ""

\* the instance a raising fit leaves behind: the maps and the matrix were
\* assigned before the sparsity line, the similarity was not
FitFailed(m, data) ==
    LET umap == IdMap({r.user_id : r \in data})
        amap == IdMap({r.anime_id : r \in data})
    IN  [m EXCEPT
            !.num_users         = Cardinality(DOMAIN umap),
            !.num_items         = Cardinality(DOMAIN amap),
            !.user_id_map       = umap,
            !.anime_id_map      = amap,
            !.reverse_anime_map = ReverseMap(amap),
            !.user_item_matrix  = BuildMatrix(data, umap, amap)]

NoFile == [exists |-> FALSE, state_dict_layers |-> <<>>,
           model_state |-> NewModel("user_based_cf", 1, 1, 1)]

\* save: the keys each class writes.  UserBasedCF and ItemBasedCF write every
\* attribute; HybridWeightedCF writes the two weights; NeuralCF writes
\* state_dict (tensors shaped by the mlp_layers of the instance), the counts,
\* the id maps, the literal [128, 64, 32] as mlp_layers, and no dropout
Save(m) ==
    [exists |-> TRUE,
     state_dict_layers |-> m.mlp_layers,
     model_state |->
        IF m.kind = "neural_cf"
        THEN [m EXCEPT !.mlp_layers = <<128, 64, 32>>, !.dropout = 0]
        ELSE IF m.kind = "hybrid"
        THEN [NewModel("hybrid", 1, 0, 0) EXCEPT !.user_weight = m.user_weight,
                                                !.item_weight = m.item_weight]
        ELSE m]

\* NeuralCF.load: load_state_dict is strict, tensors of another shape than
\* the layers of the new instance raise RuntimeError
LoadError(f) ==
    IF /\ f.model_state.kind = "neural_cf"
       /\ f.state_dict_layers # f.model_state.mlp_layers
    THEN "RuntimeError" ELSE ""

\* load: the instance built from the file; base holds the sub-models handed
\* to HybridWeightedCF.load
Load(f, base) ==
    LET s == f.model_state
    IN  IF s.kind = "neural_cf" THEN [s EXCEPT !.dropout = 20]
        ELSE IF s.kind = "hybrid"
        THEN LET w == NewModel("hybrid", 1, s.user_weight, s.item_weight)
             IN  [base EXCEPT !.user_weight = w.user_weight,
                              !.item_weight = w.item_weight]
        ELSE s

UserIdx(m) == 0..(m.num_users - 1)

AnimeIdx(m) == 0..(m.num_items - 1)

\* self.user_item_matrix[user_idx].nonzero()[1]
RatedAnimes(m, user_idx) ==
    {a \in AnimeIdx(m) : m.user_item_matrix[user_idx][a] # 0}

\* the loop that builds result from top_n_indices (user_based.py 237-243,
\* item_based.py 244-250)
TopNResult(m, predictions, top_n_indices) ==
    LET kept == SelectSeq(top_n_indices, LAMBDA idx : predictions[idx] > 0)
    IN  [p \in 1..Len(kept) |-> <<m.reverse_anime_map[kept[p]], predictions[kept[p]]>>]

(***************************************************************************)
(* UserBasedCF (user_based.py)                                             *)
(***************************************************************************)
\* a guard that forgets the anime id
UserBasedKnowsUserOnly(m, user_id, anime_id) ==
    user_id \in DOMAIN m.user_id_map

\* predict, line 142
UserBasedKnows(m, user_id, anime_id) ==
    user_id \in DOMAIN m.user_id_map /\ anime_id \in DOMAIN m.anime_id_map

UserBasedPredict(m, ties, user_id, anime_id) ==
    IF ~UserBasedKnows(m, user_id, anime_id) THEN Ret(0)
    ELSE IF user_id \notin DOMAIN m.user_id_map \/ anime_id \notin DOMAIN m.anime_id_map
    THEN Raise("KeyError")
    ELSE
    LET user_idx  == m.user_id_map[user_id]
        anime_idx == m.anime_id_map[anime_id]
        user_sims == m.user_similarity[user_idx]
        valid     == {v \in UserIdx(m) :
                        /\ m.user_item_matrix[v][anime_idx] > 0
                        /\ user_sims[v] > 0
                        /\ v # user_idx}
        chosen    == IF Cardinality(valid) > m.k_neighbors
                     THEN Range(PyLast(ArgSortIn(user_sims, valid, ties), m.k_neighbors))
                     ELSE valid
        sim_sum   == SumF([v \in chosen |-> Abs(user_sims[v])], chosen)
        dot       == SumF([v \in chosen |->
                             user_sims[v] * m.user_item_matrix[v][anime_idx]], chosen)
    IN  IF valid = {} THEN Ret(0)
        ELSE IF sim_sum = 0 THEN Ret(0)
        ELSE Ret(Clip((dot * PredScale) \div sim_sum,
                      RatingMin * PredScale, RatingMax * PredScale))

UserBasedRecommend(m, ties, user_id, n, exclude_rated) ==
    IF user_id \notin DOMAIN m.user_id_map THEN RetList(<<>>)
    ELSE
    LET user_idx  == m.user_id_map[user_id]
        user_sims == [m.user_similarity[user_idx] EXCEPT ![user_idx] = 0 - SimScale]
        top_k     == PyLast(ArgSortIn(user_sims, UserIdx(m), ties), m.k_neighbors)
        positive  == SelectSeq(top_k, LAMBDA v : user_sims[v] > 0)
        sim_sum   == SeqSum(user_sims, positive)
        weighted  ==
            [a \in AnimeIdx(m) |->
                Clip((SeqSum([v \in UserIdx(m) |->
                                user_sims[v] * m.user_item_matrix[v][a]], positive)
                        * PredScale) \div sim_sum,
                     0, RatingMax * PredScale)]
        predictions ==
            [a \in AnimeIdx(m) |->
                IF exclude_rated /\ a \in RatedAnimes(m, user_idx) THEN 0
                ELSE weighted[a]]
        top_n     == Reverse(PyLast(ArgSortIn(predictions, AnimeIdx(m), ties), n))
    IN  IF positive = <<>> THEN RetList(<<>>)
        ELSE IF sim_sum = 0 THEN RetList(<<>>)
        ELSE RetList(TopNResult(m, predictions, top_n))

(***************************************************************************)
(* ItemBasedCF (item_based.py)                                             *)
(***************************************************************************)
\* predict, line 143
ItemBasedKnows(m, user_id, anime_id) ==
    user_id \in DOMAIN m.user_id_map /\ anime_id \in DOMAIN m.anime_id_map

ItemBasedPredict(m, ties, user_id, anime_id) ==
    IF ~ItemBasedKnows(m, user_id, anime_id) THEN Ret(0)
    ELSE IF user_id \notin DOMAIN m.user_id_map \/ anime_id \notin DOMAIN m.anime_id_map
    THEN Raise("KeyError")
    ELSE
    LET user_idx  == m.user_id_map[user_id]
        anime_idx == m.anime_id_map[anime_id]
        rated     == RatedAnimes(m, user_idx)
        item_sims == m.item_similarity[anime_idx]
        top_k     == IF Cardinality(rated) > m.k_similar
                     THEN Range(PyLast(ArgSortIn(item_sims, rated, ties), m.k_similar))
                     ELSE rated
        positive  == {a \in top_k : item_sims[a] > 0}
        sim_sum   == SumF(item_sims, positive)
        dot       == SumF([a \in positive |->
                             item_sims[a] * m.user_item_matrix[user_idx][a]], positive)
    IN  IF rated = {} THEN Ret(0)
        ELSE IF positive = {} THEN Ret(0)
        ELSE IF sim_sum = 0 THEN Ret(0)
        ELSE Ret(Clip((dot * PredScale) \div sim_sum,
                      RatingMin * PredScale, RatingMax * PredScale))

ItemBasedRecommend(m, ties, user_id, n, exclude_rated) ==
    IF user_id \notin DOMAIN m.user_id_map THEN RetList(<<>>)
    ELSE
    LET user_idx  == m.user_id_map[user_id]
        rated     == RatedAnimes(m, user_idx)
        weighted_sum ==
            [a \in AnimeIdx(m) |->
                SumF([r \in rated |->
                        m.item_similarity[r][a] * m.user_item_matrix[user_idx][r]], rated)]
        sim_sum   ==
            [a \in AnimeIdx(m) |->
                SumF([r \in rated |-> Abs(m.item_similarity[r][a])], rated)]
        \* sim_sum[sim_sum == 0] = 1e-10, then the division and np.clip(., 0, 10)
        quotient  ==
            [a \in AnimeIdx(m) |->
                IF sim_sum[a] = 0
                THEN (IF weighted_sum[a] > 0 THEN RatingMax * PredScale ELSE 0)
                ELSE Clip((weighted_sum[a] * PredScale) \div sim_sum[a],
                          0, RatingMax * PredScale)]
        predictions ==
            [a \in AnimeIdx(m) |->
                IF exclude_rated /\ a \in rated THEN 0 ELSE quotient[a]]
        top_n     == Reverse(PyLast(ArgSortIn(predictions, AnimeIdx(m), ties), n))
    IN  IF rated = {} THEN RetList(<<>>)
        ELSE RetList(TopNResult(m, predictions, top_n))

\* ItemBasedCF.get_similar_animes: the scores are similarities (SimScale units)
GetSimilarAnimes(m, ties, anime_id, n) ==
    IF anime_id \notin DOMAIN m.anime_id_map THEN RetList(<<>>)
    ELSE
    LET anime_idx    == m.anime_id_map[anime_id]
        similarities == [m.item_similarity[anime_idx] EXCEPT ![anime_idx] = 0 - SimScale]
        top_indices  == Reverse(PyLast(ArgSortIn(similarities, AnimeIdx(m), ties), n))
    IN  RetList(TopNResult(m, similarities, top_indices))

(***************************************************************************)
(* HybridWeightedCF (hybrid.py): user_model and item_model are the two     *)
(* neighbourhood predictors fitted on the same data.                       *)
(***************************************************************************)
\* a predict without the fallbacks: the weighted sum whatever the sub-models
\* returned
HybridPredictAlwaysWeighted(m, ties, user_id, anime_id) ==
    LET user_pred == UserBasedPredict(m, ties, user_id, anime_id)
        item_pred == ItemBasedPredict(m, ties, user_id, anime_id)
    IN  Ret((m.user_weight * user_pred.out + m.item_weight * item_pred.out)
               \div WScale)

HybridPredict(m, ties, user_id, anime_id) ==
    LET user_pred == UserBasedPredict(m, ties, user_id, anime_id)
        item_pred == ItemBasedPredict(m, ties, user_id, anime_id)
    IN  IF user_pred.raised THEN user_pred
        ELSE IF item_pred.raised THEN item_pred
        ELSE IF user_pred.out > 0 /\ item_pred.out > 0
        THEN Ret((m.user_weight * user_pred.out + m.item_weight * item_pred.out)
                    \div WScale)
        ELSE IF user_pred.out > 0 THEN user_pred
        ELSE IF item_pred.out > 0 THEN item_pred
        ELSE Ret(0)

\* no sort: anime_scores.items() in the insertion order of the dict
InsertionOrder(items) == items

RECURSIVE SortedDesc(_)
\* sorted(items, key=lambda x: x[1], reverse=True): a stable sort, equal
\* scores keep the order they have in items
SortedDesc(items) ==
    IF items = <<>> THEN <<>>
    ELSE LET p == CHOOSE q \in 1..Len(items) :
                     /\ \A r \in 1..Len(items) : items[r][2] <= items[q][2]
                     /\ \A r \in 1..(q - 1) : items[r][2] < items[q][2]
             rest == [r \in 1..(Len(items) - 1) |->
                        IF r < p THEN items[r] ELSE items[r + 1]]
         IN  <<items[p]>> \o SortedDesc(rest)

HybridRecommend(m, ties, user_id, n, exclude_rated) ==
    LET user_recs == UserBasedRecommend(m, ties, user_id, n * 2, exclude_rated).list
        item_recs == ItemBasedRecommend(m, ties, user_id, n * 2, exclude_rated).list
        user_ids  == {user_recs[p][1] : p \in 1..Len(user_recs)}
        item_new  == SelectSeq(item_recs, LAMBDA rec : rec[1] \notin user_ids)
        \* anime_scores in insertion order: the user-based items, then the
        \* items only the item-based list holds
        keys      == [p \in 1..Len(user_recs) |-> user_recs[p][1]]
                        \o [p \in 1..Len(item_new) |-> item_new[p][1]]
        ScoreIn(recs, anime_id, weight) ==
            LET hit == {p \in 1..Len(recs) : recs[p][1] = anime_id}
            IN  IF hit = {} THEN 0
                ELSE weight * recs[CHOOSE p \in hit : TRUE][2]
        anime_scores ==
            [p \in 1..Len(keys) |->
                <<keys[p],
                  (ScoreIn(user_recs, keys[p], m.user_weight)
                     + ScoreIn(item_recs, keys[p], m.item_weight)) \div WScale>>]
    IN  RetList(PyFirst(SortedDesc(anime_scores), n))

(***************************************************************************)
(* NeuralCF (neural_cf.py)                                                 *)
(***************************************************************************)
\* the weights training can end with: state_dict selects one scoring function
StateDicts == 0..2

\* forward(user_ids, item_ids) for one pair of embedding rows: the raw output
\* of predict_layer, which is not confined to the rating scale
Forward(state_dict, mapped_user_id, mapped_anime_id) ==
    (((state_dict + 2) * (3 * mapped_user_id + 2 * mapped_anime_id + 1)) % 7) * 250
        - 2 * PredScale

NeuralPredict(m, user_id, anime_id) ==
    IF m.has_id_maps
    THEN IF user_id \notin DOMAIN m.user_id_map \/ anime_id \notin DOMAIN m.anime_id_map
         THEN Ret(0)
         ELSE Ret(Clip(Forward(m.state_dict, m.user_id_map[user_id],
                               m.anime_id_map[anime_id]),
                       RatingMin * PredScale, RatingMax * PredScale))
    \* no mapping: the ids index the embedding tables directly
    ELSE IF user_id \in UserIdx(m) /\ anime_id \in AnimeIdx(m)
         THEN Ret(Clip(Forward(m.state_dict, user_id, anime_id),
                       RatingMin * PredScale, RatingMax * PredScale))
         ELSE Raise("IndexError")

\* recommend with candidate_items=None; exclude_rated is accepted and not read
NeuralRecommend(m, user_id, n, exclude_rated) ==
    IF ~m.has_id_maps THEN RetList(<<>>)
    ELSE IF user_id \notin DOMAIN m.user_id_map THEN RetList(<<>>)
    ELSE
    LET mapped_user_id == m.user_id_map[user_id]
        \* list(self.item_id_map.keys()): the map was built from sorted ids
        original_ids == [p \in 1..Cardinality(DOMAIN m.anime_id_map) |->
                            m.reverse_anime_map[p - 1]]
        item_scores  ==
            [p \in 1..Len(original_ids) |->
                <<original_ids[p],
                  Clip(Forward(m.state_dict, mapped_user_id,
                               m.anime_id_map[original_ids[p]]),
                       RatingMin * PredScale, RatingMax * PredScale)>>]
    IN  IF original_ids = <<>> THEN RetList(<<>>)
        \* one candidate: forward's squeeze() leaves a 0-d array and
        \* zip(original_ids, predictions) cannot iterate it
        ELSE IF Len(original_ids) = 1 THEN Raise("TypeError")
        ELSE RetList(PyFirst(SortedDesc(item_scores), n))

\* the instance after a call, had the arrays the call writes to
\* (user_sims[user_idx] = -1 in UserBasedCF.recommend, similarities[anime_idx] = -1
\* in get_similar_animes) been views of the similarity matrices
AfterCallWritingThrough(m, c) ==
    IF /\ c.op = "recommend"
       /\ m.kind \in {"user_based_cf", "hybrid"}
       /\ c.user_id \in DOMAIN m.user_id_map
    THEN LET user_idx == m.user_id_map[c.user_id]
         IN  [m EXCEPT !.user_similarity[user_idx][user_idx] = 0 - SimScale]
    ELSE IF c.op = "get_similar_animes" /\ c.anime_id \in DOMAIN m.anime_id_map
    THEN LET anime_idx == m.anime_id_map[c.anime_id]
         IN  [m EXCEPT !.item_similarity[anime_idx][anime_idx] = 0 - SimScale]
    ELSE m

\* the instance after predict, recommend or get_similar_animes: every array a
\* call writes to (valid_mask, user_sims, predictions, similarities) comes from
\* toarray().flatten() or from arithmetic, which build a new array, and no
\* attribute of self is assigned
AfterCall(m, c) == m

(***************************************************************************)
(* Dispatch on the class of the instance                                   *)
(***************************************************************************)
Predict(m, ties, user_id, anime_id) ==
    CASE m.kind = "user_based_cf" -> UserBasedPredict(m, ties, user_id, anime_id)
      [] m.kind = "item_based_cf" -> ItemBasedPredict(m, ties, user_id, anime_id)
      [] m.kind = "hybrid"        -> HybridPredict(m, ties, user_id, anime_id)
      [] m.kind = "neural_cf"     -> NeuralPredict(m, user_id, anime_id)

Recommend(m, ties, user_id, n, exclude_rated) ==
    CASE m.kind = "user_based_cf" -> UserBasedRecommend(m, ties, user_id, n, exclude_rated)
      [] m.kind = "item_based_cf" -> ItemBasedRecommend(m, ties, user_id, n, exclude_rated)
      [] m.kind = "hybrid"        -> HybridRecommend(m, ties, user_id, n, exclude_rated)
      [] m.kind = "neural_cf"     -> NeuralRecommend(m, user_id, n, exclude_rated)

(***************************************************************************)
(* split_by_user (backend/ml/training/train.py 59-107) and the generator   *)
(* of the random module it seeds and draws from.                           *)
(***************************************************************************)
SplitUsers == {11, 22}

\* the lists split_by_user is called with: element p of the list is the
\* interaction [idx |-> p, user_id |-> ...] (idx tells equal dicts apart)
SplitInputs ==
    UNION {{[p \in 1..len |-> [idx |-> p, user_id |-> u[p]]] :
               u \in [1..len -> SplitUsers]} : len \in 0..MaxSplitLen}

\* test_ratio in percent; for these values and lists this short the float
\* product n * (1 - test_ratio) truncates to the exact floor
TestRatios == {20, 50, 75}

\* the generator has finitely many states; random.seed(42) puts it in one
\* fixed state
RngStates == 0..(RngPeriod - 1)

SeededState == 0

\* a seed that leaves the generator as it was
SeedKeepsState(state) == state

\* random.seed(42)
Seed(state) == SeededState

\* _randbelow(k): a number in 0..k-1 that the state determines
RandBelow(state, k) == ((state * state + 2 * state + 1) % 7) % k

\* the state after one draw
Advance(state) == (state + 1) % RngPeriod

RECURSIVE ShuffleFrom(_, _, _)
\* random.shuffle(x): for i in reversed(range(1, len(x))):
\*     j = randbelow(i + 1); x[i], x[j] = x[j], x[i]
\* (i is the 0-based index; the result is the list and the generator state)
ShuffleFrom(x, i, state) ==
    IF i < 1 THEN [list |-> x, rng |-> state]
    ELSE LET j == RandBelow(state, i + 1)
             swapped == [x EXCEPT ![i + 1] = x[j + 1], ![j + 1] = x[i + 1]]
         IN  ShuffleFrom(swapped, i - 1, Advance(state))

Shuffle(x, state) == ShuffleFrom(x, Len(x) - 1, state)

\* int(n * (1 - test_ratio))
SplitIdx(n, ratio) == (n * (100 - ratio)) \div 100

\* a test slice that starts one element late
TestSliceSkipsOne(ratings, split_idx) ==
    SubSeq(ratings, split_idx + 2, Len(ratings))

\* ratings[split_idx:]
TestSlice(ratings, split_idx) == SubSeq(ratings, split_idx + 1, Len(ratings))

\* ratings[:split_idx]
TrainSlice(ratings, split_idx) == SubSeq(ratings, 1, split_idx)

\* the keys of user_ratings in insertion order: users by first occurrence
UsersInOrder(data) ==
    LET firsts == {p \in 1..Len(data) :
                     \A q \in 1..(p - 1) : data[q].user_id # data[p].user_id}
        pos(k) == CHOOSE p \in firsts : Cardinality({q \in firsts : q < p}) = k - 1
    IN  [k \in 1..Cardinality(firsts) |-> data[pos(k)].user_id]

\* user_ratings[user_id]: the user's interactions in input order
GroupOf(data, user_id) == SelectSeq(data, LAMBDA r : r.user_id = user_id)

RECURSIVE SplitLoop(_, _, _, _, _, _, _)
\* the loop over user_ratings.items()
SplitLoop(data, users, ratio, minr, state, train, test) ==
    IF users = <<>> THEN [train_data |-> train, test_data |-> test, rng |-> state]
    ELSE LET ratings == GroupOf(data, Head(users))
             n == Len(ratings)
             sh == Shuffle(ratings, state)
             split_idx == SplitIdx(n, ratio)
         IN  IF n >= minr
             THEN SplitLoop(data, Tail(users), ratio, minr, sh.rng,
                            train \o TrainSlice(sh.list, split_idx),
                            test \o TestSlice(sh.list, split_idx))
             ELSE SplitLoop(data, Tail(users), ratio, minr, state,
                            train \o ratings, test)

\* split_by_user(ratings_data, test_ratio, min_ratings) run with the generator
\* in the given state
split_by_user(data, ratio, minr, state) ==
    SplitLoop(data, UsersInOrder(data), ratio, minr, Seed(state), <<>>, <<>>)

\* no split has been asked for
SplitParked ==
    /\ split_input = <<>>
    /\ test_ratio = 20
    /\ min_ratings = 5
    /\ rng = SeededState
    /\ split_out = <<>>

(***************************************************************************)
(* Accuracy evaluation: _compute_prediction_metrics                        *)
(***************************************************************************)
\* ratings of the test interactions
EvalRatings == {1, 9}

\* what model.predict returns for a test interaction, in PredScale units:
\* the sentinel 0 or a value of [1, 10]
EvalPreds == {0, 1 * PredScale, (17 * PredScale) \div 2}

\* a test interaction together with the prediction the model makes for it
TestInteractions == [rating : EvalRatings, pred : EvalPreds]

TestSets == UNION {[1..n -> TestInteractions] : n \in 0..MaxTest}

SampleSizes == 2..MaxTest

\* random.sample(test_data, sample_size): sample_size distinct positions of
\* test_data, in any order
Samples(test_data, sample_size) ==
    {[p \in 1..sample_size |-> test_data[f[p]]] :
        f \in {g \in [1..sample_size -> 1..Len(test_data)] :
                  \A a, b \in 1..sample_size : a # b => g[a] # g[b]}}

\* the model could not make the prediction (pred >= 0 counts the sentinel in)
PredictionSucceededOrSentinel(pred) == pred >= 0

\* if pred > 0:  # Model could make prediction
PredictionSucceeded(pred) == pred > 0

EvalOut(rmse, mae, coverage) ==
    [raised |-> FALSE, rmse |-> rmse, mae |-> mae, coverage |-> coverage]

ZeroDivisionError == [raised |-> TRUE, rmse |-> 0, mae |-> 0, coverage |-> 0]

\* the loop over sampled_test and the return statements; rmse and mae in
\* PredScale units, coverage in units of 1/PredScale
compute_prediction_metrics(sampled_test) ==
    LET made == SelectSeq(sampled_test, LAMBDA r : PredictionSucceeded(r.pred))
        error == [p \in 1..Len(made) |-> made[p].rating * PredScale - made[p].pred]
        errors == [p \in 1..Len(made) |-> error[p] * error[p]]
        abs_errors == [p \in 1..Len(made) |-> Abs(error[p])]
        successful_predictions == Len(made)
    IN  IF Len(errors) = 0 THEN EvalOut(0, 0, 0)
        ELSE IF Len(sampled_test) = 0 THEN ZeroDivisionError
        ELSE EvalOut(Isqrt(SumF(errors, DOMAIN errors) \div Len(errors)),
                     SumF(abs_errors, DOMAIN abs_errors) \div Len(abs_errors),
                     (successful_predictions * PredScale) \div Len(sampled_test))

NoEvaluation(test_data, sample_size) ==
    [test_data |-> test_data, sample_size |-> sample_size,
     sampled_test |-> <<>>, returned |-> FALSE, out |-> EvalOut(0, 0, 0)]

EvalParked == evaluation = NoEvaluation(<<>>, MaxTest)

(***************************************************************************)
(* RecommendationService: the cache of loaded models                       *)
(***************************************************************************)
ModelNames == {"user_based_cf", "item_based_cf", "hybrid", "neural_cf"}

\* a thread that is in no service call (before: for set_active_model, the
\* number of instances of each name that had been loaded when the call began)
Idle == [pc |-> "idle", op |-> "", target_model |-> "", ret |-> "", instance |-> 0,
         before |-> [name \in ModelNames |-> 0]]

\* load_model(model_name) returns True: the file exists and, for 'hybrid',
\* both base models are in the cache or can be loaded into it
LoadOk(model_name) ==
    /\ model_name \in disk
    /\ model_name = "hybrid" =>
          \A base \in {"user_based_cf", "item_based_cf"} :
              models[base] # 0 \/ base \in disk

\* load_model(model_name) when the file exists: a new instance is built from
\* the file and stored under the name.  For 'hybrid' a base model is loaded
\* only when the cache does not hold one ('if ... not in self.models'), also
\* when load_model then returns False, and the new hybrid instance is built
\* on the two base instances the cache holds
LoadModel(model_name) ==
    IF model_name # "hybrid"
    THEN /\ loads' = [loads EXCEPT ![model_name] = @ + 1]
         /\ models' = [models EXCEPT ![model_name] = loads[model_name] + 1]
         /\ UNCHANGED hybrid_parts
    ELSE LET Missing(base) == models[base] = 0 /\ base \in disk
             Base(base) == IF Missing(base) THEN loads[base] + 1 ELSE models[base]
             ok == LoadOk("hybrid")
         IN  /\ loads' = [name \in ModelNames |->
                             IF name = "hybrid" /\ ok THEN loads[name] + 1
                             ELSE IF name \in {"user_based_cf", "item_based_cf"}
                                     /\ Missing(name)
                             THEN loads[name] + 1
                             ELSE loads[name]]
             /\ models' = [name \in ModelNames |->
                              IF name = "hybrid" /\ ok THEN loads[name] + 1
                              ELSE IF name \in {"user_based_cf", "item_based_cf"}
                              THEN Base(name)
                              ELSE models[name]]
             /\ hybrid_parts' =
                   IF ok THEN [user_model |-> Base("user_based_cf"),
                               item_model |-> Base("item_based_cf")]
                   ELSE hybrid_parts

\* get_recommendation_service(): load_all_models() in the order user_based_cf,
\* item_based_cf, hybrid, neural_cf, then set_active_model('neural_cf')
CacheStarted(files) ==
    /\ disk = files
    /\ loads = [name \in ModelNames |->
                   IF name \notin files THEN 0
                   ELSE IF name = "neural_cf" THEN 2
                   ELSE IF name = "hybrid"
                           /\ ~({"user_based_cf", "item_based_cf"} \subseteq files)
                   THEN 0
                   ELSE 1]
    /\ models = loads
    /\ hybrid_parts = IF loads["hybrid"] = 1
                      THEN [user_model |-> 1, item_model |-> 1]
                      ELSE [user_model |-> 0, item_model |-> 0]
    /\ active_model = IF "neural_cf" \in files THEN "neural_cf" ELSE ""
    /\ setter = Idle
    /\ reader = Idle

\* no service is running and no model file was written
CacheParked == CacheStarted({}) /\ file = NoFile

(***************************************************************************)
(* NeuralCF.fit: the epoch loop (neural_cf.py 180-240)                     *)
(***************************************************************************)
\* fit at the head of the loop: self.train() was called, best_val_loss is
\* float('inf') (MaxLoss + 1 is above every loss), patience_counter is 0;
\* has_val is the truth value of val_data
StartFit(epochs, early_stopping, has_val) ==
    [pc |-> "loop", epochs |-> epochs, early_stopping |-> early_stopping,
     has_val |-> has_val, epoch |-> 0, best_val_loss |-> MaxLoss + 1,
     patience_counter |-> 0, stopped |-> FALSE, training |-> TRUE,
     val_losses |-> <<>>]

\* a counter that an improvement does not reset
PatienceNeverReset(improved, patience_counter) ==
    IF improved THEN patience_counter ELSE patience_counter + 1

\* patience_counter after an epoch with validation (lines 231-235)
PatienceAfter(improved, patience_counter) ==
    IF improved THEN 0 ELSE patience_counter + 1

\* no fit is under way
FitParked == fit_run = [StartFit(0, 1, FALSE) EXCEPT !.pc = "idle"]

(***************************************************************************)
(* get_training_service (training_service.py 158-169)                      *)
(***************************************************************************)
\* the module was imported and nobody has called get_training_service() yet
SingletonParked ==
    /\ training_service = 0
    /\ callers = [t \in 1..MaxCallers |-> [pc |-> "idle", returned |-> 0]]

(***************************************************************************)
(* One predictor instance and the calls made on it.                        *)
(***************************************************************************)
\* hyperparameters an instance is constructed with
HybridWeights == {<<1, 1>>, <<3, 7>>, <<0, 0>>}

NoCall == [op |-> "none", user_id |-> 0, anime_id |-> 0, n |-> 0,
           exclude_rated |-> FALSE]

NoResult == Ret(0)

\* no predictor instance is in use
RecParked ==
    /\ model = NewModel("user_based_cf", 1, 1, 1)
    /\ argsort_ties = "stable"
    /\ ratings_data = {}
    /\ call = NoCall
    /\ result = NoResult

\* no training request is in progress
SvcInit ==
    /\ jobs = <<>>
    /\ active_job = 0
    /\ pc = [r \in JobIds |-> "idle"]
    /\ req_model = [r \in JobIds |-> None]
    /\ wstep = [r \in JobIds |-> 0]

RecInit ==
    /\ SvcInit
    /\ FitParked
    /\ SingletonParked
    /\ SplitParked
    /\ EvalParked
    /\ CacheParked
    /\ \E kind \in Kinds, k \in 1..MaxK, w \in HybridWeights :
          /\ kind # "hybrid" => w = <<1, 1>>
          /\ model = NewModel(kind, k, w[1], w[2])
    /\ argsort_ties \in {"stable", "reversed"}
    \* NeuralCF has no neighbourhood size and never calls np.argsort
    /\ model.kind = "neural_cf" => (argsort_ties = "stable" /\ model.k_neighbors = 1)
    /\ ratings_data = {}
    /\ call = NoCall
    /\ result = NoResult

\* model.fit(train_data) on a fresh instance
RecFit(data) ==
    /\ ~model.fitted
    /\ call = NoCall
    /\ model.kind # "neural_cf"
    /\ model' = Fit(model, data)
    /\ ratings_data' = data
    /\ UNCHANGED <<argsort_ties, call, result, notRecVars>>

RecNeuralFit(data, state_dict) ==
    /\ ~model.fitted
    /\ model.kind = "neural_cf"
    /\ model' = NeuralFit(model, data, state_dict)
    /\ ratings_data' = data
    /\ UNCHANGED <<argsort_ties, call, result, notRecVars>>

RecAttachIdMaps ==
    /\ model.kind = "neural_cf"
    /\ model.fitted
    /\ ~model.has_id_maps
    /\ call = NoCall
    /\ model' = AttachIdMaps(model, ratings_data)
    /\ UNCHANGED <<argsort_ties, ratings_data, call, result, notRecVars>>

\* the NeuralCF instance exists once train_neural_cf has constructed it; the
\* other classes can be called on an instance that was never fitted
Callable == model.kind = "neural_cf" => model.fitted

RecPredict(user_id, anime_id) ==
    /\ Callable
    /\ call = NoCall
    /\ call' = [op |-> "predict", user_id |-> user_id, anime_id |-> anime_id,
                n |-> 0, exclude_rated |-> FALSE]
    /\ result' = Predict(model, argsort_ties, user_id, anime_id)
    /\ model' = AfterCall(model, call')
    /\ UNCHANGED <<argsort_ties, ratings_data, notRecVars>>

RecRecommend(user_id, n, exclude_rated) ==
    /\ Callable
    /\ call = NoCall
    /\ call' = [op |-> "recommend", user_id |-> user_id, anime_id |-> 0,
                n |-> n, exclude_rated |-> exclude_rated]
    /\ result' = Recommend(model, argsort_ties, user_id, n, exclude_rated)
    /\ model' = AfterCall(model, call')
    /\ UNCHANGED <<argsort_ties, ratings_data, notRecVars>>

\* RecommendationService.get_similar_animes: always on the item-based model
RecSimilar(anime_id, n) ==
    /\ model.kind = "item_based_cf"
    /\ call = NoCall
    /\ call' = [op |-> "get_similar_animes", user_id |-> 0, anime_id |-> anime_id,
                n |-> n, exclude_rated |-> FALSE]
    /\ result' = GetSimilarAnimes(model, argsort_ties, anime_id, n)
    /\ model' = AfterCall(model, call')
    /\ UNCHANGED <<argsort_ties, ratings_data, notRecVars>>

\* the caller takes the result
RecReturn ==
    /\ call # NoCall
    /\ call' = NoCall
    /\ result' = NoResult
    /\ UNCHANGED <<model, argsort_ties, ratings_data, notRecVars>>

RecNext ==
    \/ \E data \in TrainingSets : RecFit(data)
    \/ \E data \in TrainingSets, state_dict \in StateDicts : RecNeuralFit(data, state_dict)
    \/ RecAttachIdMaps
    \/ \E user_id \in QueryUserIds, anime_id \in QueryAnimeIds :
          RecPredict(user_id, anime_id)
    \/ \E user_id \in QueryUserIds, n \in 0..MaxN, exclude_rated \in BOOLEAN :
          RecRecommend(user_id, n, exclude_rated)
    \/ \E anime_id \in QueryAnimeIds, n \in 0..MaxN : RecSimilar(anime_id, n)
    \/ RecReturn

SpecRec == RecInit /\ [][RecNext]_vars

(***************************************************************************)
(* The life of one instance: fit (again), save, load                       *)
(***************************************************************************)
\* the similarity names an instance can be constructed with; each class
\* knows two of them
SimilarityMetrics == {"cosine", "pearson", "adjusted_cosine"}

MlpLayerChoices == {<<128, 64, 32>>, <<64, 32>>}

Dropouts == {20, 50}

\* the ratings of a set of users; no user gives the empty list
LifeSets == {{r \in RatingPool : r.user_id \in users} : users \in SUBSET UserIds}

LifeInit ==
    /\ SvcInit
    /\ FitParked
    /\ SingletonParked
    /\ SplitParked
    /\ EvalParked
    /\ CacheParked
    /\ \E kind \in Kinds, w \in HybridWeights, metric \in SimilarityMetrics,
          mlp_layers \in MlpLayerChoices, dropout \in Dropouts :
          /\ kind # "hybrid" => w = <<1, 1>>
          /\ kind \in {"hybrid", "neural_cf"} => metric = "cosine"
          /\ kind # "neural_cf" => (mlp_layers = <<128, 64, 32>> /\ dropout = 20)
          /\ model = [NewModel(kind, MaxK, w[1], w[2]) EXCEPT
                         !.user_similarity_metric =
                             IF kind = "user_based_cf" THEN metric ELSE @,
                         !.item_similarity_metric =
                             IF kind = "item_based_cf" THEN metric ELSE @,
                         !.mlp_layers = mlp_layers,
                         !.dropout = dropout]
    /\ argsort_ties = "stable"
    /\ ratings_data = {}
    /\ call = NoCall
    /\ result = NoResult

\* model.fit(ratings_data), on a new instance or on one that was fitted before
LifeFit(data) ==
    /\ model.kind # "neural_cf"
    /\ call = NoCall
    /\ call' = [NoCall EXCEPT !.op = "fit"]
    /\ IF FitError(model, data) = ""
       THEN /\ model' = Fit(model, data)
            /\ ratings_data' = data
            /\ result' = Ret(0)
       ELSE /\ model' = FitFailed(model, data)
            /\ result' = Raise(FitError(model, data))
            /\ UNCHANGED ratings_data
    /\ UNCHANGED <<argsort_ties, file, notLifeVars>>

\* train_neural_cf: construct, fit, attach the id maps
LifeTrainNeural(data, state_dict) ==
    /\ model.kind = "neural_cf"
    /\ ~model.fitted
    /\ data # {}
    /\ call = NoCall
    /\ call' = [NoCall EXCEPT !.op = "fit"]
    /\ model' = AttachIdMaps(NeuralFit(model, data, state_dict), data)
    /\ ratings_data' = data
    /\ result' = Ret(0)
    /\ UNCHANGED <<argsort_ties, file, notLifeVars>>

\* model.save(filepath)
LifeSave ==
    /\ call = NoCall
    /\ model.kind = "neural_cf" => model.fitted
    /\ call' = [NoCall EXCEPT !.op = "save"]
    /\ file' = Save(model)
    /\ result' = Ret(0)
    /\ UNCHANGED <<model, argsort_ties, ratings_data, notLifeVars>>

\* model = Class.load(filepath), right after the save or later
LifeLoad ==
    /\ file.exists
    /\ call.op \in {"none", "save"}
    /\ file.model_state.kind = model.kind
    /\ call' = [NoCall EXCEPT !.op = "load"]
    /\ IF LoadError(file) = ""
       THEN /\ model' = Load(file, model)
            /\ result' = Ret(0)
       ELSE /\ result' = Raise(LoadError(file))
            /\ UNCHANGED model
    /\ UNCHANGED <<argsort_ties, ratings_data, file, notLifeVars>>

\* the caller takes the result
LifeReturn ==
    /\ call.op \in {"fit", "save", "load"}
    /\ call' = NoCall
    /\ result' = NoResult
    /\ UNCHANGED <<model, argsort_ties, ratings_data, file, notLifeVars>>

LifeNext ==
    \/ \E data \in LifeSets : LifeFit(data)
    \/ \E data \in LifeSets, state_dict \in StateDicts : LifeTrainNeural(data, state_dict)
    \/ LifeSave
    \/ LifeLoad
    \/ LifeReturn

SpecLife == LifeInit /\ [][LifeNext]_vars

(***************************************************************************)
(* Calls of split_by_user on one input                                     *)
(***************************************************************************)
SplitInit ==
    /\ SvcInit
    /\ FitParked
    /\ SingletonParked
    /\ RecParked
    /\ EvalParked
    /\ CacheParked
    /\ split_input \in SplitInputs
    /\ test_ratio \in TestRatios
    /\ min_ratings \in 1..MaxMinRatings
    /\ rng \in RngStates
    /\ split_out = <<>>

\* train_data, test_data = split_by_user(ratings_data, test_ratio, min_ratings)
SplitCall ==
    /\ Len(split_out) < MaxSplitCalls
    /\ LET r == split_by_user(split_input, test_ratio, min_ratings, rng)
       IN  /\ split_out' = Append(split_out, [train_data |-> r.train_data,
                                              test_data |-> r.test_data])
           /\ rng' = r.rng
    /\ UNCHANGED <<split_input, test_ratio, min_ratings, notSplitVars>>

\* other code draws from the generator between two calls (random.sample in
\* evaluate.py, the shuffles of split_by_item and split_by_genre)
RngUse(state) ==
    /\ state # rng
    /\ rng' = state
    /\ UNCHANGED <<split_input, test_ratio, min_ratings, split_out, notSplitVars>>

SplitNext ==
    \/ SplitCall
    \/ \E state \in RngStates : RngUse(state)

SpecSplit == SplitInit /\ [][SplitNext]_vars

(***************************************************************************)
(* One call of the accuracy evaluation                                     *)
(***************************************************************************)
EvalInit ==
    /\ SvcInit
    /\ FitParked
    /\ SingletonParked
    /\ RecParked
    /\ SplitParked
    /\ CacheParked
    /\ \E test_data \in TestSets, sample_size \in SampleSizes :
          evaluation = NoEvaluation(test_data, sample_size)

\* rmse, mae, coverage_pred = _compute_prediction_metrics(model, test_data, sample_size)
\* sampled_test is a random sample when the test set is longer than
\* sample_size, the test set itself otherwise
EvalCall ==
    /\ ~evaluation.returned
    /\ \E sampled_test \in (IF Len(evaluation.test_data) > evaluation.sample_size
                               THEN Samples(evaluation.test_data, evaluation.sample_size)
                               ELSE {evaluation.test_data}) :
          evaluation' = [evaluation EXCEPT
                            !.sampled_test = sampled_test,
                            !.returned = TRUE,
                            !.out = compute_prediction_metrics(sampled_test)]
    /\ UNCHANGED notEvalVars

EvalNext == EvalCall

SpecEval == EvalInit /\ [][EvalNext]_vars

(***************************************************************************)
(* set_active_model running beside get_recommendations / predict_rating    *)
(***************************************************************************)
CacheInit ==
    /\ SvcInit
    /\ FitParked
    /\ SingletonParked
    /\ RecParked
    /\ SplitParked
    /\ EvalParked
    /\ file = NoFile
    /\ \E files \in SUBSET ModelNames : CacheStarted(files)

\* set_active_model(model_name), up to the end of
\*   if model_name in self.models: del self.models[model_name]
SetRemoveOld(model_name) ==
    /\ setter.pc = "idle"
    /\ SumF(loads, ModelNames) < MaxLoads + 4
    /\ setter' = [Idle EXCEPT !.pc = "load", !.op = "set_active_model",
                              !.target_model = model_name, !.before = loads]
    /\ models' = [models EXCEPT ![model_name] = 0]
    /\ UNCHANGED <<active_model, disk, loads, reader, hybrid_parts, notCacheVars>>

\* if not self.load_model(model_name): return False
\* self.active_model = model_name; return True
SetLoadFresh ==
    /\ setter.pc = "load"
    /\ IF LoadOk(setter.target_model)
       THEN /\ LoadModel(setter.target_model)
            /\ active_model' = setter.target_model
            /\ setter' = [setter EXCEPT !.pc = "idle", !.ret = "True",
                                        !.instance = loads[setter.target_model] + 1]
       ELSE /\ setter' = [setter EXCEPT !.pc = "idle", !.ret = "False"]
            /\ IF setter.target_model \in disk
               THEN LoadModel(setter.target_model)
               ELSE UNCHANGED <<models, loads, hybrid_parts>>
            /\ UNCHANGED active_model
    /\ UNCHANGED <<disk, reader, notCacheVars>>

\* get_recommendations / predict_rating: the choice of target_model
ReadStart(op, model_name) ==
    /\ reader.pc = "idle"
    /\ SumF(loads, ModelNames) < MaxLoads + 4
    /\ LET target_model == IF model_name # "" THEN model_name
                           ELSE IF active_model # "" THEN active_model
                           ELSE "user_based_cf"
       IN  reader' = [Idle EXCEPT !.pc = "check", !.op = op,
                                  !.target_model = target_model]
    /\ UNCHANGED <<models, active_model, disk, loads, setter, hybrid_parts,
                   notCacheVars>>

\* if target_model not in self.models:
ReadCheck ==
    /\ reader.pc = "check"
    /\ reader' = [reader EXCEPT !.pc = IF models[reader.target_model] = 0
                                       THEN "load" ELSE "get"]
    /\ UNCHANGED <<models, active_model, disk, loads, setter, hybrid_parts,
                   notCacheVars>>

\*     if not self.load_model(target_model): return [] (return 0.0)
ReadLoad ==
    /\ reader.pc = "load"
    /\ IF LoadOk(reader.target_model)
       THEN /\ LoadModel(reader.target_model)
            /\ reader' = [reader EXCEPT !.pc = "get"]
       ELSE /\ reader' = [reader EXCEPT !.pc = "idle", !.ret = "empty"]
            /\ IF reader.target_model \in disk
               THEN LoadModel(reader.target_model)
               ELSE UNCHANGED <<models, loads, hybrid_parts>>
    /\ UNCHANGED <<active_model, disk, setter, notCacheVars>>

\* model = self.models[target_model]; return model.recommend(...) (model.predict(...))
ReadGet ==
    /\ reader.pc = "get"
    /\ reader' = IF models[reader.target_model] = 0
                 THEN [reader EXCEPT !.pc = "idle", !.ret = "KeyError"]
                 ELSE [reader EXCEPT !.pc = "idle", !.ret = "answer",
                                     !.instance = models[reader.target_model]]
    /\ UNCHANGED <<models, active_model, disk, loads, setter, hybrid_parts,
                   notCacheVars>>

\* clear_models(), called while no set_active_model is under way
ClearModels ==
    /\ setter.pc = "idle"
    /\ \E name \in ModelNames : models[name] # 0
    /\ models' = [name \in ModelNames |-> 0]
    /\ active_model' = ""
    /\ UNCHANGED <<disk, loads, setter, reader, hybrid_parts, notCacheVars>>

\* a model file is removed or cannot be read any more: os.path.exists gives
\* False, or the load raises and load_model returns False (lines 51-53, 83-85)
FileLost(model_name) ==
    /\ model_name \in disk
    /\ disk' = disk \ {model_name}
    /\ UNCHANGED <<models, active_model, loads, setter, reader, hybrid_parts,
                   notCacheVars>>

CacheNext ==
    \/ \E model_name \in ModelNames : SetRemoveOld(model_name)
    \/ SetLoadFresh
    \/ \E op \in {"get_recommendations", "predict_rating"},
          model_name \in ModelNames \cup {""} : ReadStart(op, model_name)
    \/ ReadCheck
    \/ ReadLoad
    \/ ReadGet
    \/ ClearModels
    \/ \E model_name \in ModelNames : FileLost(model_name)

SpecCache == CacheInit /\ [][CacheNext]_vars

(***************************************************************************)
(* The training service on its own                                         *)
(***************************************************************************)
Init ==
    /\ SvcInit
    /\ RecParked
    /\ SplitParked
    /\ EvalParked
    /\ CacheParked
    /\ FitParked
    /\ SingletonParked

Next ==
    \/ \E r \in JobIds, m \in valid_models : TrainCheck(r, m)
    \/ \E r \in JobIds : TrainInsert(r)
    \/ \E j \in JobIds : MarkRunning(j)
    \/ \E j \in JobIds : Progress(j)
    \/ \E j \in JobIds : Fault(j)
    \/ \E j \in JobIds : Complete(j)

Spec == Init /\ [][Next]_vars

\* worker threads are scheduled by the operating system and every pipeline
\* step terminates: a started worker keeps taking steps
FairSpec == Spec /\ \A j \in JobIds : WF_vars(Worker(j))

(***************************************************************************)
(* The training service with the trainers of individual_trainers.py.       *)
(* Spec leaves the trainer open (it reports progress, then returns or      *)
(* raises); here the worker runs the module as it is in the repository.    *)
(***************************************************************************)
\* individual_trainers.py 20-25: the module imports optimize_hybrid_weights
\* from ml.training.train, which defines no such name; the import statement
\* of run_training (admin.py 318) raises this for every model name
TrainersImportError == "ImportError: cannot import name 'optimize_hybrid_weights'"

\* run_training: from ml.training.individual_trainers import get_trainer,
\* inside try:, before the trainer is looked up and before its first
\* progress_callback -> except Exception -> service.mark_failed
ImportTrainers(j) ==
    /\ InTry(j)
    /\ wstep[j] = 0
    /\ j \in DOMAIN jobs
    /\ jobs' = [jobs EXCEPT ![j] = mark_failed(@, TrainersImportError)]
    /\ active_job' = IF active_job = j THEN 0 ELSE active_job
    /\ pc' = [pc EXCEPT ![j] = "finished"]
    /\ UNCHANGED <<req_model, wstep, notSvcVars>>

TrainNext ==
    \/ \E r \in JobIds, m \in valid_models : TrainCheck(r, m)
    \/ \E r \in JobIds : TrainInsert(r)
    \/ \E j \in JobIds : MarkRunning(j)
    \/ \E j \in JobIds : ImportTrainers(j)

SpecTrain == Init /\ [][TrainNext]_vars

(***************************************************************************)
(* One call of NeuralCF.fit                                                *)
(***************************************************************************)
FitInit ==
    /\ SvcInit
    /\ RecParked
    /\ SplitParked
    /\ EvalParked
    /\ CacheParked
    /\ SingletonParked
    /\ \E epochs \in 0..MaxEpochs, early_stopping \in 1..MaxPatience,
          has_val \in BOOLEAN :
          fit_run = StartFit(epochs, early_stopping, has_val)

\* one pass of 'for epoch in range(epochs)': self.train() and the batches,
\* then, with a validation loader, self.eval(), the validation loss of this
\* epoch (val_loss, whatever the weights give) and the early-stopping test
FitEpoch(val_loss) ==
    /\ fit_run.pc = "loop"
    /\ ~fit_run.stopped
    /\ fit_run.epoch < fit_run.epochs
    /\ ~fit_run.has_val => val_loss = 1
    /\ LET improved == val_loss < fit_run.best_val_loss
           counter  == PatienceAfter(improved, fit_run.patience_counter)
       IN  fit_run' =
             IF fit_run.has_val
             THEN [fit_run EXCEPT
                      !.epoch = @ + 1,
                      !.training = FALSE,
                      !.val_losses = Append(@, val_loss),
                      !.best_val_loss = IF improved THEN val_loss ELSE @,
                      !.patience_counter = counter,
                      !.stopped = ~improved /\ counter >= fit_run.early_stopping]
             ELSE [fit_run EXCEPT !.epoch = @ + 1, !.training = TRUE]
    /\ UNCHANGED notFitVars

\* the loop is left (range exhausted, or break): self.eval(), fit returns
FitReturn ==
    /\ fit_run.pc = "loop"
    /\ fit_run.stopped \/ fit_run.epoch = fit_run.epochs
    /\ fit_run' = [fit_run EXCEPT !.pc = "done", !.training = FALSE]
    /\ UNCHANGED notFitVars

FitNext ==
    \/ \E val_loss \in 1..MaxLoss : FitEpoch(val_loss)
    \/ FitReturn

\* every batch and every validation pass terminates: the thread inside fit
\* keeps taking steps
SpecFit == FitInit /\ [][FitNext]_vars /\ WF_vars(FitNext)

(***************************************************************************)
(* get_training_service() called from request threads                      *)
(***************************************************************************)
SingletonInit ==
    /\ SvcInit
    /\ RecParked
    /\ SplitParked
    /\ EvalParked
    /\ CacheParked
    /\ FitParked
    /\ SingletonParked

\* if _training_service is None:
GetCheck(t) ==
    /\ callers[t].pc = "idle"
    /\ callers' = [callers EXCEPT ![t].pc = IF training_service = 0
                                            THEN "create" ELSE "return"]
    /\ UNCHANGED <<training_service, notSingletonVars>>

\*     _training_service = TrainingService()
\* (the instance thread t constructs is numbered t)
GetCreate(t) ==
    /\ callers[t].pc = "create"
    /\ training_service' = t
    /\ callers' = [callers EXCEPT ![t].pc = "return"]
    /\ UNCHANGED notSingletonVars

\* return _training_service
GetReturn(t) ==
    /\ callers[t].pc = "return"
    /\ callers' = [callers EXCEPT ![t].pc = "done", ![t].returned = training_service]
    /\ UNCHANGED <<training_service, notSingletonVars>>

SingletonNext ==
    \/ \E t \in 1..MaxCallers : GetCheck(t)
    \/ \E t \in 1..MaxCallers : GetCreate(t)
    \/ \E t \in 1..MaxCallers : GetReturn(t)

SpecSingleton == SingletonInit /\ [][SingletonNext]_vars

(***************************************************************************)
(* Claims about the training service.                                      *)
(***************************************************************************)
Running == {j \in DOMAIN jobs : jobs[j].status = "running"}

Terminal == {"completed", "failed"}

\* C1: in every reachable state at most one job has status running.
\* (Stated as claimed; two requests that both pass create_job's check before
\* either worker calls mark_running are both marked running.)
C1_AtMostOneRunning == Cardinality(Running) <= 1

\* C2: a create_job call whose check runs while some job has status running
\* raises the conflict error, records no job and changes no job field.
C2_ConflictWhileRunning ==
    [][\A r \in JobIds :
          (pc[r] = "idle" /\ pc'[r] # "idle" /\ Running # {})
              => (pc'[r] = "conflict" /\ jobs' = jobs /\ active_job' = active_job)
      ]_vars

\* C3: a job's status only moves pending -> running -> completed or failed,
\* and a completed or failed job never changes status again.
C3_StatusMonotone ==
    [][\A j \in DOMAIN jobs :
          \/ jobs'[j].status = jobs[j].status
          \/ jobs[j].status = "pending" /\ jobs'[j].status = "running"
          \/ jobs[j].status = "running" /\ jobs'[j].status \in Terminal
      ]_vars

C3_Witness ==
    \E j, k \in DOMAIN jobs :
        /\ jobs[j].status = "completed"
        /\ jobs[k].status = "failed"
        /\ \E l \in DOMAIN jobs : jobs[l].status = "running" /\ wstep[l] > 0

\* C4: a worker that has ended has left its job completed or failed, a failed
\* job carries a non-empty error text, and every job whose worker has started
\* eventually is completed or failed (under FairSpec: workers keep running and
\* pipeline steps terminate).
C4_WorkerEndsTerminal ==
    /\ [](\A j \in DOMAIN jobs :
            /\ pc[j] = "finished" => jobs[j].status \in Terminal
            /\ jobs[j].status = "failed" => jobs[j].error # None)
    /\ \A j \in JobIds :
            (pc[j] = "started") ~> (j \in DOMAIN jobs /\ jobs[j].status \in Terminal)

C4_Witness ==
    \E j \in DOMAIN jobs :
        /\ pc[j] = "finished"
        /\ jobs[j].status = "failed"
        /\ jobs[j].error # None
        /\ wstep[j] > 0

\* C5: the step that completes a job leaves progress 100, metrics stored and
\* no error; the step that fails a job stores the error, leaves the metrics
\* empty and leaves progress at the last reported value.
C5_TerminalFields ==
    [][\A j \in DOMAIN jobs :
          /\ (jobs[j].status # "completed" /\ jobs'[j].status = "completed")
                => /\ jobs'[j].progress = 100
                   /\ jobs'[j].metrics # None
                   /\ jobs'[j].error = None
          /\ (jobs[j].status # "failed" /\ jobs'[j].status = "failed")
                => /\ jobs'[j].error # None
                   /\ jobs'[j].metrics = None
                   /\ jobs'[j].progress = jobs[j].progress
      ]_vars

C5_Witness ==
    \E j, k \in DOMAIN jobs :
        /\ jobs[j].status = "completed" /\ jobs[j].progress = 100
        /\ jobs[j].metrics # None
        /\ jobs[k].status = "failed" /\ jobs[k].progress = 60
        /\ jobs[k].error # None

\* C6: progress lies in [0,100], is 0 while pending, is 100 only when the job
\* is completed, and never decreases.
C6_ProgressMonotone ==
    /\ [](\A j \in DOMAIN jobs :
            /\ jobs[j].progress \in 0..100
            /\ jobs[j].status = "pending" => jobs[j].progress = 0
            /\ jobs[j].progress = 100 => jobs[j].status = "completed")
    /\ [][\A j \in DOMAIN jobs : jobs'[j].progress >= jobs[j].progress]_vars

C6_Witness ==
    \E j \in DOMAIN jobs :
        /\ jobs[j].model_name = "hybrid"
        /\ jobs[j].status = "running"
        /\ jobs[j].progress = 95


(***************************************************************************)
(* Claims about the predictors (checked under SpecRec)                     *)
(***************************************************************************)
KnownUser(user_id) == user_id \in DOMAIN model.user_id_map

KnownAnime(anime_id) == anime_id \in DOMAIN model.anime_id_map

\* the items user_id rated in the training interactions
RatedInTraining(user_id) ==
    {r.anime_id : r \in {q \in ratings_data : q.user_id = user_id}}

C8_AtMostNStrictlyDecreasing ==
    (/\ call.op = "recommend"
     /\ model.fitted
     /\ model.has_id_maps
     /\ KnownUser(call.user_id))
       => /\ ~result.raised
          /\ Len(result.list) <= call.n
          /\ \A p, q \in 1..Len(result.list) :
                p < q => /\ result.list[p][2] > result.list[q][2]
                         /\ result.list[p][1] # result.list[q][1]

\* C9: recommend(u, n, exclude_rated=True) returns no anime that u rated in
\* the training interactions.
C9_ExcludeRatedHonoured ==
    (/\ call.op = "recommend"
     /\ call.exclude_rated
     /\ ~result.raised)
       => \A p \in 1..Len(result.list) :
             result.list[p][1] \notin RatedInTraining(call.user_id)

\* C10: for the user-based and the item-based predictor, recommend(u, n,
\* exclude_rated) is the naive procedure: predict(u, i) for every catalog
\* item, without the sentinel results and (with exclude_rated) the rated
\* items, in descending score order, cut to the first n.  Items of equal
\* score may come in either order.
C10_RecommendIsNaiveLoop ==
    (/\ call.op = "recommend"
     /\ model.kind \in {"user_based_cf", "item_based_cf"})
       => LET naive(a) == Predict(model, argsort_ties, call.user_id, a).out
              kept == {a \in DOMAIN model.anime_id_map :
                         /\ naive(a) > 0
                         /\ call.exclude_rated => a \notin RatedInTraining(call.user_id)}
              out  == result.list
              got  == {out[p][1] : p \in 1..Len(out)}
          IN  /\ ~result.raised
              /\ Len(out) = Min(call.n, Cardinality(kept))
              /\ Cardinality(got) = Len(out)
              /\ got \subseteq kept
              /\ \A p \in 1..Len(out) : out[p][2] = naive(out[p][1])
              /\ \A p, q \in 1..Len(out) : p < q => out[p][2] >= out[q][2]
              /\ \A p \in 1..Len(out), a \in kept \ got : out[p][2] >= naive(a)

C20_WeightsSumToOne ==
    model.kind = "hybrid"
       => /\ model.user_weight + model.item_weight = WScale
          /\ model.user_weight \in 0..WScale
          /\ model.item_weight \in 0..WScale

(***************************************************************************)
(* Claims about split_by_user (checked under SpecSplit)                    *)
(***************************************************************************)
\* the elements of a list, as a set
Elems(seq) == {seq[p] : p \in 1..Len(seq)}

\* the number of interactions of user_id in a list
CountOf(seq, user_id) == Len(SelectSeq(seq, LAMBDA r : r.user_id = user_id))

\* C12: train and test partition the input: every input interaction is in
\* exactly one of them, once; nothing is added or dropped; a user with fewer
\* than min_ratings interactions has all of them in train and none in test.
C12_SplitPartitionsInput ==
    \A c \in 1..Len(split_out) :
        LET train == split_out[c].train_data
            test  == split_out[c].test_data
        IN  /\ Len(train) + Len(test) = Len(split_input)
            /\ Elems(train) \cup Elems(test) = Elems(split_input)
            /\ Elems(train) \cap Elems(test) = {}
            /\ Cardinality(Elems(train)) = Len(train)
            /\ Cardinality(Elems(test)) = Len(test)
            /\ \A u \in SplitUsers :
                  CountOf(split_input, u) < min_ratings
                     => /\ CountOf(train, u) = CountOf(split_input, u)
                        /\ CountOf(test, u) = 0

\* one user was below the minimum and kept whole, another was split in two
\* non-empty parts
C12_Witness ==
    /\ Len(split_out) >= 1
    /\ \E u, v \in SplitUsers :
          /\ CountOf(split_input, u) \in 1..(min_ratings - 1)
          /\ CountOf(split_out[1].train_data, u) = CountOf(split_input, u)
          /\ CountOf(split_out[1].train_data, v) >= 1
          /\ CountOf(split_out[1].test_data, v) >= 1

\* C13: every user with an interaction in the returned test set has at
\* least one interaction in the returned train set.
C13_TestUsersAreInTrain ==
    \A c \in 1..Len(split_out) :
        \A u \in SplitUsers :
            CountOf(split_out[c].test_data, u) >= 1
               => CountOf(split_out[c].train_data, u) >= 1

\* C14: two calls on the same input with the same parameters return the same
\* train and test lists, whatever state the generator was in before each.
C14_SplitIsRepeatable ==
    \A c, d \in 1..Len(split_out) : split_out[c] = split_out[d]

\* two calls were made, the generator was in different states before them,
\* and a shuffle changed the order of some user's interactions
C14_Witness ==
    /\ Len(split_out) = 2
    /\ rng # SeededState
    /\ split_out[1].train_data \o split_out[1].test_data # split_input
    /\ Len(split_out[1].test_data) >= 1

(***************************************************************************)
(* Claims about the accuracy evaluation (checked under SpecEval)           *)
(***************************************************************************)
\* positions of the attempted interactions whose prediction is not the sentinel
Succeeded(sampled_test) == {p \in 1..Len(sampled_test) : sampled_test[p].pred # 0}

C16_NoMissingModelError == reader.ret # "KeyError"

(***************************************************************************)
(* Claims about the effect of calls on the instance (checked under SpecRec)*)
(***************************************************************************)
\* the output of the call c made on the instance m
Redo(m, ties, c) ==
    IF c.op = "predict" THEN Predict(m, ties, c.user_id, c.anime_id)
    ELSE IF c.op = "recommend" THEN Recommend(m, ties, c.user_id, c.n, c.exclude_rated)
    ELSE GetSimilarAnimes(m, ties, c.anime_id, c.n)

C18_FailedFitLeavesStateAlone ==
    [][(call'.op = "fit" /\ result'.raised
          /\ model.kind \in {"user_based_cf", "item_based_cf"})
          => model' = model]_vars

\* C19: load right after save gives an instance equal to the saved one
\* (hyperparameters, maps, everything predict and recommend read), for every
\* class and whatever hyperparameters the saved instance was constructed with.
C19_LoadReproducesSaved ==
    [][(call.op = "save" /\ call'.op = "load")
          => (~result'.raised /\ model' = model)]_vars

(***************************************************************************)
(* Claims about neighbour selection (checked under SpecRec)                *)
(***************************************************************************)
\* the ways of taking the (at most) k members of candidates with the highest
\* similarity: no member left out is more similar than a member taken
NearestSets(candidates, sims, k) ==
    {N \in SUBSET candidates :
        /\ Cardinality(N) = Min(k, Cardinality(candidates))
        /\ \A a \in N, b \in candidates \ N : sims[a] >= sims[b]}

\* the similarity-weighted average of the ratings of N, clipped to [1, 10]
WeightedAverage(N, sims, ratings) ==
    Clip((SumF([a \in N |-> sims[a] * ratings[a]], N) * PredScale)
            \div SumF(sims, N),
         RatingMin * PredScale, RatingMax * PredScale)

ScoreFromOthers(m, user_idx, a) ==
    LET others == RatedAnimes(m, user_idx) \ {a}
        den    == SumF([r \in others |-> Abs(m.item_similarity[r][a])], others)
        num    == SumF([r \in others |->
                          m.item_similarity[r][a] * m.user_item_matrix[user_idx][r]],
                       others)
    IN  IF den = 0 THEN 0
        ELSE Clip((num * PredScale) \div den, 0, RatingMax * PredScale)

\* C22: neighbour selection never includes the target itself.  ItemBasedCF
\* .predict(u, i) takes its neighbours among the rated items other than i, also
\* when u has rated i; ItemBasedCF.recommend scores every item it returns from
\* the rated items other than that item; get_similar_animes(i) never returns
\* i.  (That UserBasedCF.predict leaves u out is part of C21.)
C22_TargetIsNeverItsOwnNeighbour ==
    /\ (/\ call.op = "predict"
        /\ model.kind = "item_based_cf"
        /\ KnownUser(call.user_id)
        /\ KnownAnime(call.anime_id))
          => LET u == model.user_id_map[call.user_id]
                 i == model.anime_id_map[call.anime_id]
                 sims == model.item_similarity[i]
                 ratings == model.user_item_matrix[u]
                 candidates == {a \in AnimeIdx(model) \ {i} :
                                   ratings[a] > 0 /\ sims[a] > 0}
             IN  /\ candidates = {} => result.out = 0
                 /\ candidates # {} =>
                       \E N \in NearestSets(candidates, sims, model.k_similar) :
                           result.out = WeightedAverage(N, sims, ratings)
    /\ (/\ call.op = "recommend"
        /\ model.kind = "item_based_cf"
        /\ KnownUser(call.user_id))
          => \A p \in 1..Len(result.list) :
                result.list[p][2] =
                    ScoreFromOthers(model, model.user_id_map[call.user_id],
                                    model.anime_id_map[result.list[p][1]])
    /\ call.op = "get_similar_animes"
          => \A p \in 1..Len(result.list) : result.list[p][1] # call.anime_id

(***************************************************************************)
(* Claims about the hybrid ranking (checked under SpecRec)                 *)
(***************************************************************************)
\* the score a list of (anime_id, score) pairs gives anime_id, 0 when absent
ScoreOr0(recs, anime_id) ==
    LET hit == {p \in 1..Len(recs) : recs[p][1] = anime_id}
    IN  IF hit = {} THEN 0 ELSE recs[CHOOSE p \in hit : TRUE][2]

\* C23: HybridWeightedCF.recommend(u, n) asks each sub-predictor for 2n
\* candidates, scores every item of the union of the two lists with
\* user_weight * (user-based score or 0) + item_weight * (item-based score or 0)
\* and returns the n highest-scoring items in descending score order.
C23_HybridRanksTheUnion ==
    (call.op = "recommend" /\ model.kind = "hybrid")
      => LET user_recs == UserBasedRecommend(model, argsort_ties, call.user_id,
                                             2 * call.n, call.exclude_rated).list
             item_recs == ItemBasedRecommend(model, argsort_ties, call.user_id,
                                             2 * call.n, call.exclude_rated).list
             union == {user_recs[p][1] : p \in 1..Len(user_recs)}
                         \cup {item_recs[p][1] : p \in 1..Len(item_recs)}
             score == [a \in union |->
                          (model.user_weight * ScoreOr0(user_recs, a)
                             + model.item_weight * ScoreOr0(item_recs, a))
                          \div WScale]
             out == result.list
             returned == {out[p][1] : p \in 1..Len(out)}
         IN  /\ ~result.raised
             /\ Len(out) = Min(call.n, Cardinality(union))
             /\ Cardinality(returned) = Len(out)
             /\ returned \subseteq union
             /\ \A p \in 1..Len(out) : out[p][2] = score[out[p][1]]
             /\ \A p \in 1..(Len(out) - 1) : out[p][2] >= out[p + 1][2]
             /\ \A a \in returned, b \in union \ returned : score[a] >= score[b]

\* a hybrid recommend whose two candidate lists differ, one item scoring
\* higher than another, returned fewer items than the union holds
C23_Witness ==
    /\ call.op = "recommend"
    /\ model.kind = "hybrid"
    /\ call.n >= 1
    /\ LET user_recs == UserBasedRecommend(model, argsort_ties, call.user_id,
                                           2 * call.n, call.exclude_rated).list
           item_recs == ItemBasedRecommend(model, argsort_ties, call.user_id,
                                           2 * call.n, call.exclude_rated).list
           union == {user_recs[p][1] : p \in 1..Len(user_recs)}
                       \cup {item_recs[p][1] : p \in 1..Len(item_recs)}
       IN  /\ user_recs # <<>>
           /\ item_recs # <<>>
           /\ \E p \in 1..Len(item_recs) : ScoreOr0(user_recs, item_recs[p][1]) = 0
           /\ Len(result.list) < Cardinality(union)
    /\ result.list # <<>>
    /\ result.list[1][2] > 0

(***************************************************************************)
(* Claims about the training pipeline (checked under SpecTrain)            *)
(***************************************************************************)
\* C24: a training job started for one of the four valid model names fails
\* only when a step of its pipeline (data loading, splitting, fitting,
\* evaluation, saving) faults: a failed job has at least entered the
\* pipeline, i.e. its trainer has made its first progress report
\* ("Loading data ..."); a job none of whose steps faults ends completed.
C24_FailsOnlyOnPipelineFault ==
    \A j \in DOMAIN jobs :
        (req_model[j] \in valid_models /\ jobs[j].status = "failed")
            => wstep[j] >= 1

(***************************************************************************)
(* Claims about reloading and the active model (checked under SpecCache)   *)
(***************************************************************************)
\* C25: once set_active_model(name) has returned True, the instance the
\* cache holds for name was read from disk during that call, and for
\* 'hybrid' so were the user-based and item-based instances it is built on:
\* none of them is an instance that was loaded before the call began.
C25_ActivationServesFreshInstances ==
    (setter.op = "set_active_model" /\ setter.pc = "idle" /\ setter.ret = "True")
      => LET name == setter.target_model
         IN  models[name] # 0 =>
               /\ models[name] > setter.before[name]
               /\ name = "hybrid" =>
                     /\ hybrid_parts.user_model > setter.before["user_based_cf"]
                     /\ hybrid_parts.item_model > setter.before["item_based_cf"]

\* C29: active_model is unset or names a model present in the cache, in
\* every reachable state; and a set_active_model call that returns False
\* leaves active_model and the cache as they were when it was called.
C29_ActiveModelIsCached ==
    active_model # "" => models[active_model] # 0

(***************************************************************************)
(* Claims about NeuralCF.fit (checked under SpecFit)                       *)
(***************************************************************************)
\* the best validation loss of the first e epochs
BestOf(losses, e) ==
    IF e = 0 THEN MaxLoss + 1
    ELSE CHOOSE b \in {losses[k] : k \in 1..e} : \A k \in 1..e : b <= losses[k]

\* epoch e was the last of early_stopping consecutive epochs none of which
\* improved on the best loss before it
PatienceExhausted(losses, e, early_stopping) ==
    /\ e >= early_stopping
    /\ \A k \in (e - early_stopping + 1)..e : losses[k] >= BestOf(losses, k - 1)

CentredDot(X, i, j) ==
    LET Rated(u) == {a \in DOMAIN X[u] : X[u][a] # 0}
        users  == {u \in DOMAIN X : Rated(u) # {}}
        scale  == CHOOSE s \in 1..60 :
                     \A u \in users : s % Cardinality(Rated(u)) = 0
        Centred(u, a) ==
            IF X[u][a] = 0 THEN 0
            ELSE scale * X[u][a]
                    - (scale \div Cardinality(Rated(u))) * SumF(X[u], Rated(u))
    IN  SumF([u \in users |-> Centred(u, i) * Centred(u, j)], users)

\* C27: with the adjusted-cosine metric the item similarity matrix is the
\* cosine of the mean-centred ratings, not of the raw ratings: the similarity
\* of two items has the sign of the dot product of their mean-centred columns
\* (0 when that product is 0); and the stored interaction matrix still holds
\* the raw ratings.
C27_SimilarityOfCentredRatings ==
    (/\ model.kind = "item_based_cf"
     /\ model.fitted
     /\ model.item_similarity_metric = "adjusted_cosine")
      => /\ model.user_item_matrix =
                BuildMatrix(ratings_data, model.user_id_map, model.anime_id_map)
         /\ \A i, j \in AnimeIdx(model) :
               LET d == CentredDot(model.user_item_matrix, i, j)
                   s == model.item_similarity[i][j]
               IN  /\ d > 0 => s > 0
                   /\ d = 0 => s = 0
                   /\ d < 0 => s < 0

(***************************************************************************)
(* Claims about active_job (checked under Spec)                            *)
(***************************************************************************)
\* C28: active_job is set exactly when some job has status running, and when
\* set it names a recorded job whose status is running.
C28_ActiveJobIffRunning ==
    /\ active_job # 0 <=> Running # {}
    /\ active_job # 0 =>
          (active_job \in DOMAIN jobs /\ jobs[active_job].status = "running")

(***************************************************************************)
(* Claims about get_training_service (checked under SpecSingleton)         *)
(***************************************************************************)
\* C30: get_training_service() returns the same TrainingService instance to
\* every caller, also to callers whose first calls run concurrently.
C30_OneInstanceForAll ==
    \A a, b \in 1..MaxCallers :
        (callers[a].pc = "done" /\ callers[b].pc = "done")
            => callers[a].returned = callers[b].returned

====
